---- MODULE Spec2Model ----
(***************************************************************************)
(* jose-bot: the moderation engine of src/jose_bot.  One room, the bot's   *)
(* three event handlers (invite, membership, unknown/_reaction) run as     *)
(* coroutines that suspend at every awaited round trip, and the two pure   *)
(* helpers the handlers rest on (get_user_id_parts, hash_user_id).         *)
(*                                                                         *)
(* A user identifier is a sequence of one-character strings, so that the   *)
(* regular expression of utils.py is matched character by character.       *)
(***************************************************************************)
EXTENDS Integers, Sequences, FiniteSets, TLC

\* ------------------------------------------------------------------ bounds
\* Number of events the event stream delivers in one behaviour; every
\* delivered event starts one handler coroutine.
MaxEvents == 2

\* ------------------------------------------------------- user identifiers
Alice == <<"@", "a", ":", "t", ".", "e", "x">>
Spam == <<"@", "s", ":", "e", "v", ".", "i", "l">>
Eve == <<"@", "e", ":", "e", "v", ".", "i", "l">>
Mallory == <<"@", "m", ":", "1", ".", "1", ".", "1", ".", "1", ".", "e", "v">>
Malformed == <<"@", ":", "e", "v", ".", "i", "l">>
Bot == <<"@", "b", ":", "b", "o", ".", "t">>

UserIds == {Alice, Spam, Eve, Mallory, Malformed, Bot}

\* ------------------------------------------------ utils.py: MATRIX_UID_RE
Digit == {"0", "1", "2", "3", "4", "5", "6", "7", "8", "9"}
Lower ==
    {"a", "b", "c", "d", "e", "f", "g", "h", "i", "j", "k", "l", "m",
     "n", "o", "p", "q", "r", "s", "t", "u", "v", "w", "x", "y", "z"}
Upper ==
    {"A", "B", "C", "D", "E", "F", "G", "H", "I", "J", "K", "L", "M",
     "N", "O", "P", "Q", "R", "S", "T", "U", "V", "W", "X", "Y", "Z"}

\* [\!-9\;-\~] : the printable ASCII characters except the colon (the grave
\* accent, which a TLA+ string cannot hold, is left out; no identifier of the
\* model contains it)
LocalChar ==
    Digit \cup Lower \cup Upper \cup
    {"!", "\"", "#", "$", "%", "&", "'", ")", "(", "+", "*", ",", "-", ".",
     "/", ";", "<", "=", ">", "?", "@", "[", "\\", "]", "^", "_", "{",
     "|", "}", "~"}

\* [0-9A-Fa-f:.]
Ipv6Char ==
    Digit \cup {"a", "b", "c", "d", "e", "f", "A", "B", "C", "D", "E", "F", ":", "."}

\* [-.0-9A-Za-z]
DnsChar == Digit \cup Lower \cup Upper \cup {"-", "."}

\* The number of consecutive characters of s, from position i on, that lie in
\* class C (what a greedy C* consumes at i).
RECURSIVE Run(_, _, _)
Run(s, i, C) ==
    IF i <= Len(s) /\ s[i] \in C THEN 1 + Run(s, i + 1, C) ELSE 0

Min(a, b) == IF a <= b THEN a ELSE b

\* [0-9]{1,3}.[0-9]{1,3}.[0-9]{1,3}.[0-9]{1,3} at position i.  The dots are
\* unescaped in the source: each matches any one character.  q gives the
\* four repetition counts; the match is feasible when every counted position
\* holds a digit and every separator position holds a character.
Ipv4Feasible(s, i, q) ==
    LET p2 == i + q[1] + 1
        p3 == p2 + q[2] + 1
        p4 == p3 + q[3] + 1
    IN  /\ p4 + q[4] - 1 <= Len(s)
        /\ \A k \in 0..(q[1] - 1) : s[i + k] \in Digit
        /\ \A k \in 0..(q[2] - 1) : s[p2 + k] \in Digit
        /\ \A k \in 0..(q[3] - 1) : s[p3 + k] \in Digit
        /\ \A k \in 0..(q[4] - 1) : s[p4 + k] \in Digit

\* Backtracking order of greedy quantifiers: q is tried before r when it is
\* larger at the first count where they differ.
TriedBefore(q, r) ==
    \E j \in 1..4 : q[j] > r[j] /\ \A k \in 1..(j - 1) : q[k] = r[k]

Counts == (1..3) \X (1..3) \X (1..3) \X (1..3)

\* Length of the match of the first alternative at i, 0 when it fails.
Ipv4Len(s, i) ==
    LET F == {q \in Counts : Ipv4Feasible(s, i, q)}
    IN  IF F = {} THEN 0
        ELSE LET q == CHOOSE x \in F : \A y \in F \ {x} : TriedBefore(x, y)
             IN  q[1] + q[2] + q[3] + q[4] + 3

\* \[[0-9A-Fa-f:.]{2,45}\] at position i, 0 when it fails.
Ipv6Len(s, i) ==
    IF i <= Len(s) /\ s[i] = "["
    THEN LET r == Run(s, i + 1, Ipv6Char)
         IN  IF r >= 2 /\ r <= 45 /\ i + 1 + r <= Len(s) /\ s[i + 1 + r] = "]"
             THEN r + 2 ELSE 0
    ELSE 0

\* [-.0-9A-Za-z]{1,255}(?::[0-9]{1,5})? at position i, 0 when it fails.
DnsLen(s, i) ==
    LET k == Min(Run(s, i, DnsChar), 255)
        d == IF i + k <= Len(s) /\ s[i + k] = ":"
             THEN Min(Run(s, i + k + 1, Digit), 5) ELSE 0
    IN  IF k = 0 THEN 0 ELSE IF d > 0 THEN k + 1 + d ELSE k

\* The second group: the first alternative that matches wins, since nothing
\* follows the group in the expression.
DomainLen(s, i) ==
    IF Ipv4Len(s, i) > 0 THEN Ipv4Len(s, i)
    ELSE IF Ipv6Len(s, i) > 0 THEN Ipv6Len(s, i)
    ELSE DnsLen(s, i)

NoMatch == <<>>

\* re.match(MATRIX_UID_RE, user_id): <<localpart, domain>>, or NoMatch where
\* re.match returns None.  The match is anchored at the start only.
MatrixUidMatch(user_id) ==
    IF Len(user_id) = 0 \/ user_id[1] # "@" THEN NoMatch
    ELSE LET l == Run(user_id, 2, LocalChar)
             c == 2 + l
         IN  IF l = 0 \/ c > Len(user_id) \/ user_id[c] # ":" THEN NoMatch
             ELSE LET n == DomainLen(user_id, c + 1)
                  IN  IF n = 0 THEN NoMatch
                      ELSE <<SubSeq(user_id, 2, c - 1),
                             SubSeq(user_id, c + 1, c + n)>>

\* The match of every identifier of the model, computed once.
UidMatches == [u \in UserIds |-> MatrixUidMatch(u)]

\* get_user_id_parts: `.groups()` on None raises AttributeError.
ParseRaises(user_id) == UidMatches[user_id] = NoMatch

get_user_id_parts(user_id) == UidMatches[user_id]

\* ------------------------------------------------- utils.py: hash_user_id
REACTIONS ==
    <<"tada", "rofl", "smiley", "yum", "partying", "thinking", "sweat_smile">>

\* xxhash.xxh64_intdigest(user_id), seed 0, as four 16-bit limbs, most
\* significant first (the library is not part of the repository: the digests
\* of the identifiers of the model are tabulated).
xxh64_intdigest(user_id) ==
    CASE user_id = Alice -> <<46610, 48963, 45137, 37223>>
      [] user_id = Spam -> <<60197, 4107, 21349, 7566>>
      [] user_id = Eve -> <<17180, 2690, 63164, 23715>>
      [] user_id = Mallory -> <<45720, 59933, 52578, 16624>>
      [] user_id = Malformed -> <<47554, 21128, 16247, 29095>>
      [] user_id = Bot -> <<12467, 39770, 25535, 13805>>

\* hash % len(REACTIONS), on the limbs (Horner, base 2^16).
RECURSIVE LimbsMod(_, _)
LimbsMod(limbs, m) ==
    IF limbs = <<>> THEN 0
    ELSE (LimbsMod(SubSeq(limbs, 1, Len(limbs) - 1), m) * 65536
          + limbs[Len(limbs)]) % m

\* The token of every identifier of the model, computed once.
Tokens ==
    [u \in UserIds |-> REACTIONS[LimbsMod(xxh64_intdigest(u), Len(REACTIONS)) + 1]]

hash_user_id(user_id) == Tokens[user_id]

\* ------------------------------------------------------------ dictionaries
EmptyDict == [x \in {} |-> 0]

\* d[k] = v
DictPut(d, k, v) == [x \in DOMAIN d \cup {k} |-> IF x = k THEN v ELSE d[x]]

\* del d[k], for a key that is present
DictDel(d, k) == [x \in DOMAIN d \ {k} |-> d[x]]

\* d.get(k, default)
DictGet(d, k, default) == IF k \in DOMAIN d THEN d[k] ELSE default

\* ------------------------------------------------------------------- state
VARIABLES
    allowed_servers,  \* config.allowed_servers: a set of domains
    dry_run,          \* config.dry_run
    joined,           \* the bot is a member of the room
    power,            \* the room's m.room.power_levels content: events, users
    timeline,         \* the messages the bot has posted to the room, in order
    tasks,            \* the handler coroutine started for each delivered event
    delivered,        \* number of events delivered so far
    user_token,       \* config.user_token is set (no password login)
    main_pc,          \* where main() stands
    iteration,        \* the run of the body of `while True` main() is in
    session_open,     \* the client holds an open transport session
    event_callbacks,  \* client.event_callbacks: the registrations, in order
    sync_failures,    \* failed initial syncs of this run of the body
    pause,            \* length of the last sleep() of this run of the body
    cause,            \* what made main() leave the body of the try
    pending,          \* what follows the finally clause: loop, return, raise
    dispatched,       \* events the client has handed to its callbacks
    invocations       \* handler calls made for the last of these events

\* The state of main(), and the state the handlers act on.
mvars == <<user_token, main_pc, iteration, session_open, event_callbacks,
           sync_failures, pause, cause, pending, dispatched, invocations>>
hvars == <<allowed_servers, dry_run, joined, power, timeline, tasks, delivered>>

vars == <<allowed_servers, dry_run, joined, power, timeline, tasks, delivered,
          user_token, main_pc, iteration, session_open, event_callbacks,
          sync_failures, pause, cause, pending, dispatched, invocations>>

TaskIds == 1..MaxEvents

\* Event identifiers a reaction can point to: 0 is a message of the room that
\* the bot did not write, i >= 1 is the i-th message of the bot (unknown to
\* the server until it is posted).
ForeignEvent == 0
EventIds == 0..MaxEvents
\* relation_dict.get("event_id") of a relation that names no event
NoEventId == -1

Memberships == {"join", "leave"}
PrevMemberships == {"None", "join", "leave", "invite", "ban"}
\* The keys of the reactions that are sent: the tokens of three users and one
\* token that is nobody's.
Keys == {hash_user_id(Spam), hash_user_id(Eve), hash_user_id(Bot), REACTIONS[6]}
\* The reactions that are sent, as key and event.sender: every key by Spam,
\* and the token of Spam by somebody else.
Reactions == {<<k, Spam>> : k \in Keys} \cup {<<hash_user_id(Spam), Eve>>}

\* The membership events that are delivered: every join, and one event that
\* is not a join (the handler looks at nothing else of such an event).
MemberEvents ==
    {<<u, "join", p>> : u \in UserIds, p \in PrevMemberships}
        \cup {<<Spam, "leave", "join">>}

\* The events of unknown type that are delivered: every reaction that
\* annotates an event, and one event each that unknown() drops: not a
\* reaction, not an annotation, without a target.
UnknownEvents ==
    {<<"m.reaction", "m.annotation", id, r[1], r[2]>> :
        id \in EventIds, r \in Reactions}
        \cup {<<"m.room.redaction", "m.annotation", ForeignEvent, REACTIONS[6], Spam>>,
              <<"m.reaction", "m.replace", ForeignEvent, REACTIONS[6], Spam>>,
              <<"m.reaction", "m.annotation", NoEventId, REACTIONS[6], Spam>>}

NoTask ==
    [kind |-> "none", pc |-> "idle", state_key |-> <<>>, key |-> "",
     sender |-> <<>>, reacted_to_id |-> NoEventId, events |-> EmptyDict, users |-> EmptyDict,
     attempt |-> 0, result |-> ""]

\* The coroutine returns: its locals are dropped and its result is kept, with
\* the user and the message it acted on when it went as far as a read of the
\* power levels.
Return(task, result) ==
    IF result \in {"ignored", "fetch_failed", "not_confirm", "mismatch"}
    THEN [NoTask EXCEPT !.kind = task.kind, !.pc = "done", !.result = result]
    ELSE [task EXCEPT !.pc = "done", !.events = EmptyDict, !.users = EmptyDict,
                      !.key = "", !.sender = <<>>, !.result = result]

\* The coroutine ends with an exception escaping the handler.
Raise(task, exception) ==
    [task EXCEPT !.pc = "raised", !.events = EmptyDict, !.users = EmptyDict,
                 !.key = "", !.sender = <<>>, !.result = exception]

\* nio's PowerLevels(events=events, users=users): the defaults that apply
\* when a key is absent (the handler passes no defaults of the room).  Every
\* room of the model names m.room.power_levels in its events, so that
\* state_default decides nothing here.
users_default == 0
state_default == 0

\* PowerLevels.can_user_send_state(user, event_type)
can_user_send_state(events, users, user, event_type) ==
    DictGet(users, user, users_default) >= DictGet(events, event_type, state_default)

\* The homeserver accepts a state event only from a sender whose level in the
\* room's current power levels suffices.
ServerAllowsPut ==
    can_user_send_state(power.events, power.users, Bot, "m.room.power_levels")

\* A write that would merge: it keeps the overrides the room holds for users
\* the written content does not name.
PutStateMerged(current, events, users) ==
    [events |-> events,
     users |-> [u \in DOMAIN current.users \cup DOMAIN users |->
                   IF u \in DOMAIN users THEN users[u] ELSE current.users[u]]]

\* room_put_state(room_id, "m.room.power_levels", {"events": events, "users": users}):
\* the content the room holds after the write, given what it held before.
PutState(current, events, users) == [events |-> events, users |-> users]

\* send_text_to_room(..., extended_data={"type": "join_confirm", "state_key": u}):
\* the content of the posted message, with the token its body names.
ConfirmMessage(state_key) ==
    [type |-> "join_confirm", state_key |-> state_key, in_reply_to |-> "None",
     token |-> hash_user_id(state_key), msgtype |-> "m.notice"]

\* callbacks = Callbacks(client, config) and the three add_event_callback
\* calls: the entries appended to client.event_callbacks, each the method of
\* a Callbacks object (named by the run that made it) and its event filter.
Registrations(run) ==
    <<[callbacks |-> run, func |-> "invite_event_filtered_callback",
       filter |-> "InviteMemberEvent"],
      [callbacks |-> run, func |-> "membership", filter |-> "RoomMemberEvent"],
      [callbacks |-> run, func |-> "unknown", filter |-> "UnknownEvent"]>>

\* main() in its first run of the loop body, at sync_forever, after a password
\* login: the state in which the handlers are called.
MainRunning ==
    /\ user_token = FALSE
    /\ main_pc = "sync_forever"
    /\ iteration = 1
    /\ session_open = TRUE
    /\ event_callbacks = Registrations(1)
    /\ sync_failures = 0
    /\ pause = 0
    /\ cause = "none"
    /\ pending = "loop"
    /\ dispatched = 0
    /\ invocations = 0

PendingRoom ==
    [events |-> DictPut(DictPut(EmptyDict, "m.room.power_levels", 100), "m.reaction", -1),
     users |-> DictPut(DictPut(EmptyDict, Bot, 100), Spam, -1)]

Init ==
    /\ allowed_servers = {<<"t", ".", "e", "x">>, <<"1", ".", "1", ".", "1", ".", "1">>}
    /\ dry_run \in BOOLEAN
    /\ joined \in BOOLEAN
    /\ \/ /\ timeline = <<>>
          /\ \E botLevel \in {0, 100} :
                power = [events |-> DictPut(EmptyDict, "m.room.power_levels", 100),
                         users |-> IF botLevel = 0 THEN EmptyDict
                                   ELSE DictPut(EmptyDict, Bot, botLevel)]
       \/ \* a room in which an earlier run of the bot demoted Spam
          /\ joined
          /\ ~dry_run
          /\ timeline = <<ConfirmMessage(Spam)>>
          /\ power = PendingRoom
    /\ tasks = [t \in TaskIds |-> NoTask]
    /\ delivered = 0
    /\ MainRunning

\* The event stream hands the next event to a fresh handler coroutine.
NextTask == delivered + 1

Frame == UNCHANGED <<allowed_servers, dry_run>> /\ UNCHANGED mvars

\* ---------------------------------------------- callbacks.py: invite
\* invite_event_filtered_callback, up to the first await of invite().
InviteStart(state_key) ==
    /\ delivered < MaxEvents
    /\ ~joined
    /\ delivered' = delivered + 1
    /\ LET task == [NoTask EXCEPT !.kind = "invite", !.state_key = state_key]
       IN  tasks' = [tasks EXCEPT ![NextTask] =
                        IF state_key = Bot
                        THEN [task EXCEPT !.pc = "join"]
                        ELSE Return(task, "ignored")]
    /\ UNCHANGED <<joined, power, timeline>>
    /\ Frame

\* A faulty loop: range(4).
AfterJoinErrorFour(task) ==
    IF task.attempt + 1 < 4
    THEN [task EXCEPT !.attempt = task.attempt + 1]
    ELSE [task EXCEPT !.pc = "done", !.result = "gave_up"]

\* The loop `for attempt in range(3)` after a failed join: next attempt, or
\* the loop's else branch.
AfterJoinError(task) ==
    IF task.attempt + 1 < 3
    THEN [task EXCEPT !.attempt = task.attempt + 1]
    ELSE Return(task, "gave_up")

\* One `await self.client.join(room.room_id)` completes.
InviteJoin(t, ok) ==
    /\ tasks[t].kind = "invite"
    /\ tasks[t].pc = "join"
    /\ IF ok
       THEN /\ joined' = TRUE
            /\ tasks' = [tasks EXCEPT ![t] = Return(tasks[t], "joined")]
       ELSE /\ joined' = joined
            /\ tasks' = [tasks EXCEPT ![t] = AfterJoinError(tasks[t])]
    /\ UNCHANGED <<power, timeline, delivered>>
    /\ Frame

\* ---------------------------------------------- callbacks.py: membership
\* A faulty filter: every join counts, whatever the membership before it.
IsNewJoinAnyPrev(membership, prev_membership) == membership = "join"

\* event.membership == "join" and event.prev_membership in (None, "invite", "leave")
IsNewJoin(membership, prev_membership) ==
    membership = "join" /\ prev_membership \in {"None", "invite", "leave"}

\* domain in self.config.allowed_servers, for an identifier that parses
IsAllowed(state_key, allowed) == get_user_id_parts(state_key)[2] \in allowed

\* A faulty requirement: events["m.reaction"] = 0.
DemoteEventsZero(events) == DictPut(events, "m.reaction", 0)

\* events["m.reaction"] = -1
DemoteEvents(events) == DictPut(events, "m.reaction", -1)

\* A faulty demotion: users[event.state_key] = 0.
DemoteUsersZero(users, state_key) == DictPut(users, state_key, 0)

\* users[event.state_key] = -1
DemoteUsers(users, state_key) == DictPut(users, state_key, -1)

\* membership(), up to its first await.
MembershipStart(state_key, membership, prev_membership) ==
    /\ delivered < MaxEvents
    /\ joined
    /\ delivered' = delivered + 1
    /\ LET task == [NoTask EXCEPT !.kind = "membership", !.state_key = state_key]
       IN  tasks' = [tasks EXCEPT ![NextTask] =
                        IF ~IsNewJoin(membership, prev_membership)
                        THEN Return(task, "ignored")
                        ELSE IF ParseRaises(state_key)
                        THEN Raise(task, "AttributeError")
                        ELSE IF IsAllowed(state_key, allowed_servers)
                        THEN Return(task, "allowed")
                        ELSE IF dry_run
                        THEN Return(task, "dry_run")
                        ELSE [task EXCEPT !.pc = "get_state"]]
    /\ UNCHANGED <<joined, power, timeline>>
    /\ Frame

\* A faulty resumption: the write is issued without the check of the bot's
\* own level.
AfterDemoteReadUnchecked(task, content) ==
    [task EXCEPT !.pc = "put_state",
                 !.events = DictPut(content.events, "m.reaction", -1),
                 !.users = DictPut(content.users, task.state_key, -1)]

\* A faulty resumption: the users map that is written names the bot and the
\* joining user only.
AfterDemoteReadFresh(task, content) ==
    LET events == DemoteEvents(content.events)
        users == DictPut(EmptyDict, Bot, DictGet(content.users, Bot, users_default))
    IN  IF ~can_user_send_state(events, users, Bot, "m.room.power_levels")
        THEN Return(task, "incapable")
        ELSE [task EXCEPT !.pc = "put_state", !.events = events,
                          !.users = DemoteUsers(users, task.state_key)]

\* The handler resumes with the power levels it read: it edits its copy,
\* checks the bot's own level on the copy and issues the write.
AfterDemoteRead(task, content) ==
    LET events == DemoteEvents(content.events)
        users == content.users
    IN  IF ~can_user_send_state(events, users, Bot, "m.room.power_levels")
        THEN Return(task, "incapable")
        ELSE [task EXCEPT !.pc = "put_state", !.events = events,
                          !.users = DemoteUsers(users, task.state_key)]

\* `await self.client.room_get_state_event(...)` completes.
MembershipGetState(t, ok) ==
    /\ tasks[t].kind = "membership"
    /\ tasks[t].pc = "get_state"
    /\ tasks' = [tasks EXCEPT ![t] =
                    IF ok THEN AfterDemoteRead(tasks[t], power)
                    ELSE Return(tasks[t], "read_failed")]
    /\ UNCHANGED <<joined, power, timeline, delivered>>
    /\ Frame

\* A faulty resumption: the write's response is not looked at.
AfterDemotePutUnchecked(task, ok) == [task EXCEPT !.pc = "send"]

\* After the write's response: send the confirmation, or stop on an error.
AfterDemotePut(task, ok) ==
    IF ok THEN [task EXCEPT !.pc = "send"] ELSE Return(task, "write_failed")

\* `await self.client.room_put_state(...)` completes: the server has replaced
\* the power levels by the handler's copy, or has answered with an error.
MembershipPutState(t, ok) ==
    /\ tasks[t].kind = "membership"
    /\ tasks[t].pc = "put_state"
    /\ ok => ServerAllowsPut
    /\ power' = IF ok THEN PutState(power, tasks[t].events, tasks[t].users)
                ELSE power
    /\ tasks' = [tasks EXCEPT ![t] = AfterDemotePut(tasks[t], ok)]
    /\ UNCHANGED <<joined, timeline, delivered>>
    /\ Frame

\* `await send_text_to_room(...)` completes.
MembershipSend(t, ok) ==
    /\ tasks[t].kind = "membership"
    /\ tasks[t].pc = "send"
    /\ timeline' = IF ok THEN Append(timeline, ConfirmMessage(tasks[t].state_key))
                   ELSE timeline
    /\ tasks' = [tasks EXCEPT ![t] =
                    Return(tasks[t], IF ok THEN "sent" ELSE "send_failed")]
    /\ UNCHANGED <<joined, power, delivered>>
    /\ Frame

\* ------------------------------------- callbacks.py: unknown, _reaction
\* event.type == "m.reaction", with a target and rel_type m.annotation
IsReaction(type, rel_type, event_id) ==
    type = "m.reaction" /\ event_id # NoEventId /\ rel_type = "m.annotation"

\* unknown(), up to the first await of _reaction().
UnknownStart(type, rel_type, event_id, key, sender) ==
    /\ delivered < MaxEvents
    /\ joined
    /\ delivered' = delivered + 1
    /\ LET task == [NoTask EXCEPT !.kind = "unknown"]
       IN  tasks' = [tasks EXCEPT ![NextTask] =
                        IF IsReaction(type, rel_type, event_id)
                        THEN [task EXCEPT !.pc = "get_event", !.key = key,
                                          !.sender = sender,
                                          !.reacted_to_id = event_id]
                        ELSE Return(task, "ignored")]
    /\ UNCHANGED <<joined, power, timeline>>
    /\ Frame

\* is_bot_event(e) and get_bot_event_type(e) == "join_confirm"
IsJoinConfirm(event_id) ==
    event_id # ForeignEvent /\ timeline[event_id].type = "join_confirm"

\* A faulty resumption: the key is accepted only from the user the message
\* names.
AfterGetEventBySender(task) ==
    IF ~IsJoinConfirm(task.reacted_to_id)
    THEN Return(task, "not_confirm")
    ELSE LET state_key == timeline[task.reacted_to_id].state_key
         IN  IF task.key = hash_user_id(state_key) /\ task.sender = state_key
             THEN [task EXCEPT !.pc = "get_state", !.state_key = state_key]
             ELSE Return([task EXCEPT !.state_key = state_key], "mismatch")

\* A faulty resumption: a challenge is taken back once an attempt on it has
\* failed.
AfterGetEventOnce(task) ==
    IF ~IsJoinConfirm(task.reacted_to_id)
    THEN Return(task, "not_confirm")
    ELSE LET state_key == timeline[task.reacted_to_id].state_key
         IN  IF /\ task.key = hash_user_id(state_key)
                /\ \A t \in TaskIds :
                      tasks[t].result \notin {"mismatch", "fetch_failed", "read_failed"}
             THEN [task EXCEPT !.pc = "get_state", !.state_key = state_key]
             ELSE Return([task EXCEPT !.state_key = state_key], "mismatch")

\* The handler resumes with the event that was reacted to.
AfterGetEvent(task) ==
    IF ~IsJoinConfirm(task.reacted_to_id)
    THEN Return(task, "not_confirm")
    ELSE LET state_key == timeline[task.reacted_to_id].state_key
         IN  IF task.key = hash_user_id(state_key)
             THEN [task EXCEPT !.pc = "get_state", !.state_key = state_key]
             ELSE Return([task EXCEPT !.state_key = state_key], "mismatch")

\* `await self.client.room_get_event(...)` completes; the server knows the
\* events that have been posted.
ReactionGetEvent(t, ok) ==
    /\ tasks[t].kind = "unknown"
    /\ tasks[t].pc = "get_event"
    /\ ok => tasks[t].reacted_to_id \in {ForeignEvent} \cup (1..Len(timeline))
    /\ tasks' = [tasks EXCEPT ![t] =
                    IF ok THEN AfterGetEvent(tasks[t])
                    ELSE Return(tasks[t], "fetch_failed")]
    /\ UNCHANGED <<joined, power, timeline, delivered>>
    /\ Frame

\* A faulty restore: users[state_key] = 0, the entry is reset and not removed.
RestoreUsersReset(users, state_key) == DictPut(users, state_key, 0)

\* del users[state_key]
RestoreUsers(users, state_key) == DictDel(users, state_key)

\* A faulty resumption: the resolver also takes back the requirement for
\* m.reaction.
AfterRestoreReadUndo(task, content) ==
    IF task.state_key \notin DOMAIN content.users
    THEN Raise(task, "KeyError")
    ELSE [task EXCEPT !.pc = "put_state",
                      !.events = DictDel(content.events, "m.reaction"),
                      !.users = RestoreUsers(content.users, task.state_key)]

\* The handler resumes with the power levels it read: it deletes the
\* user's entry from its copy (KeyError when there is none) and issues the
\* write.
AfterRestoreRead(task, content) ==
    IF task.state_key \notin DOMAIN content.users
    THEN Raise(task, "KeyError")
    ELSE [task EXCEPT !.pc = "put_state", !.events = content.events,
                      !.users = RestoreUsers(content.users, task.state_key)]

ReactionGetState(t, ok) ==
    /\ tasks[t].kind = "unknown"
    /\ tasks[t].pc = "get_state"
    /\ tasks' = [tasks EXCEPT ![t] =
                    IF ok THEN AfterRestoreRead(tasks[t], power)
                    ELSE Return(tasks[t], "read_failed")]
    /\ UNCHANGED <<joined, power, timeline, delivered>>
    /\ Frame

\* `await self.client.room_put_state(...)` completes; the response is not
\* looked at.
ReactionPutState(t, ok) ==
    /\ tasks[t].kind = "unknown"
    /\ tasks[t].pc = "put_state"
    /\ ok => ServerAllowsPut
    /\ power' = IF ok THEN PutState(power, tasks[t].events, tasks[t].users)
                ELSE power
    /\ tasks' = [tasks EXCEPT ![t] =
                    Return(tasks[t], IF ok THEN "restored" ELSE "write_failed")]
    /\ UNCHANGED <<joined, timeline, delivered>>
    /\ Frame

\* ------------------------------------------------------------ specification
Next ==
    \/ \E u \in UserIds : InviteStart(u)
    \/ \E t \in TaskIds, ok \in BOOLEAN : InviteJoin(t, ok)
    \/ \E e \in MemberEvents : MembershipStart(e[1], e[2], e[3])
    \/ \E t \in TaskIds, ok \in BOOLEAN : MembershipGetState(t, ok)
    \/ \E t \in TaskIds, ok \in BOOLEAN : MembershipPutState(t, ok)
    \/ \E t \in TaskIds, ok \in BOOLEAN : MembershipSend(t, ok)
    \/ \E e \in UnknownEvents : UnknownStart(e[1], e[2], e[3], e[4], e[5])
    \/ \E t \in TaskIds, ok \in BOOLEAN : ReactionGetEvent(t, ok)
    \/ \E t \in TaskIds, ok \in BOOLEAN : ReactionGetState(t, ok)
    \/ \E t \in TaskIds, ok \in BOOLEAN : ReactionPutState(t, ok)

Spec == Init /\ [][Next]_vars

\* The same handlers when the event stream awaits each handler before it
\* delivers the next event: no two coroutines are in flight together.
NoneInFlight == \A t \in TaskIds : tasks[t].pc \in {"idle", "done", "raised"}

NextSerial ==
    \/ NoneInFlight /\ \E u \in UserIds : InviteStart(u)
    \/ \E t \in TaskIds, ok \in BOOLEAN : InviteJoin(t, ok)
    \/ NoneInFlight /\ \E e \in MemberEvents : MembershipStart(e[1], e[2], e[3])
    \/ \E t \in TaskIds, ok \in BOOLEAN : MembershipGetState(t, ok)
    \/ \E t \in TaskIds, ok \in BOOLEAN : MembershipPutState(t, ok)
    \/ \E t \in TaskIds, ok \in BOOLEAN : MembershipSend(t, ok)
    \/ NoneInFlight /\ \E e \in UnknownEvents : UnknownStart(e[1], e[2], e[3], e[4], e[5])
    \/ \E t \in TaskIds, ok \in BOOLEAN : ReactionGetEvent(t, ok)
    \/ \E t \in TaskIds, ok \in BOOLEAN : ReactionGetState(t, ok)
    \/ \E t \in TaskIds, ok \in BOOLEAN : ReactionPutState(t, ok)

SpecSerial == Init /\ [][NextSerial]_vars

\* ------------------------------------------------------- main.py: main
MaxIterations == 3
MaxSyncFailures == 2
MaxDispatched == 2

\* sleep(15) of the two except clauses, sleep(30) of the initial-sync loop
ReconnectPause == 15
InitialSyncPause == 30

\* The kinds of event a sync response delivers, by the class the client
\* filters on.
EventClasses == {"InviteMemberEvent", "RoomMemberEvent", "UnknownEvent"}
NoEvent == "None"

\* The client calls, in order, every registered callback whose filter the
\* event matches: the number of calls one event of that class causes.
Matching(callbacks, class) ==
    Cardinality({i \in 1..Len(callbacks) : callbacks[i].filter = class})

\* lines 101-106: three more entries on the client's list
AddEventCallbacks(callbacks, run) == callbacks \o Registrations(run)

InitMain ==
    /\ allowed_servers = {<<"t", ".", "e", "x">>, <<"1", ".", "1", ".", "1", ".", "1">>}
    /\ dry_run = FALSE
    /\ joined = TRUE
    /\ timeline = <<>>
    /\ power = [events |-> DictPut(EmptyDict, "m.room.power_levels", 100),
                users |-> DictPut(EmptyDict, Bot, 100)]
    /\ tasks = [t \in TaskIds |-> NoTask]
    /\ delivered = 0
    /\ user_token \in BOOLEAN
    /\ main_pc = "login"
    /\ iteration = 1
    /\ session_open = FALSE
    /\ event_callbacks = <<>>
    /\ sync_failures = 0
    /\ pause = 0
    /\ cause = "none"
    /\ pending = "loop"
    /\ dispatched = 0
    /\ invocations = 0

MainFrame == UNCHANGED hvars /\ UNCHANGED user_token

\* A faulty clause: no sleep before the finally clause.
ExceptNoSleep(exception) ==
    /\ main_pc' = "close"
    /\ cause' = exception

\* An exception reaches the except clauses of the try (lines 110-118).
Except(exception) ==
    /\ main_pc' = "sleep"
    /\ cause' = exception

\* `return False` of the login branch (lines 75, 85): the finally clause
\* runs before main() returns.
ReturnFalse(why) ==
    /\ main_pc' = "close"
    /\ cause' = why

\* lines 60-89: with a token nothing is awaited (encryption is off, so no
\* keys are uploaded); without one, `await client.login(...)` completes.
MainLogin(outcome) ==
    /\ main_pc = "login"
    /\ user_token => outcome = "ok"
    /\ CASE outcome = "ok" ->
               /\ main_pc' = "initial_sync"
               /\ session_open' = (session_open \/ ~user_token)
               /\ UNCHANGED <<cause, pending>>
         [] outcome \in {"LoginError", "LocalProtocolError"} ->
               /\ ReturnFalse(outcome)
               /\ pending' = "return"
               /\ session_open' = (session_open \/ outcome = "LoginError")
         [] OTHER ->
               /\ Except(outcome)
               /\ session_open' = TRUE
               /\ UNCHANGED pending
    /\ UNCHANGED <<iteration, event_callbacks, sync_failures, pause, dispatched,
                   invocations>>
    /\ MainFrame

\* A faulty retry loop: it gives up at the second failure.
AfterSyncErrorTwice(failures) ==
    IF failures + 1 < 2 THEN "initial_sync" ELSE "close"

\* lines 93-96: where main() stands after one more failed initial sync
AfterSyncError(failures) == "initial_sync"

\* lines 92-106: one `await client.sync(...)` of the initial sync completes.
\* A response that is an error is followed by sleep(30) and the next call; a
\* good one has its event (if any) handed to the callbacks registered so
\* far, then the callbacks of this run are registered.
MainInitialSync(outcome, class) ==
    /\ main_pc = "initial_sync"
    /\ outcome # "ok" => class = NoEvent
    /\ CASE outcome = "ok" ->
               /\ main_pc' = "sync_forever"
               /\ class # NoEvent => dispatched < MaxDispatched
               /\ dispatched' = IF class = NoEvent THEN dispatched ELSE dispatched + 1
               /\ invocations' = IF class = NoEvent THEN invocations
                                  ELSE Matching(event_callbacks, class)
               /\ event_callbacks' = AddEventCallbacks(event_callbacks, iteration)
               /\ UNCHANGED <<sync_failures, pause, cause, pending>>
         [] outcome = "SyncError" ->
               /\ sync_failures < MaxSyncFailures
               /\ sync_failures' = sync_failures + 1
               /\ pause' = InitialSyncPause
               /\ main_pc' = AfterSyncError(sync_failures)
               /\ pending' = IF main_pc' = "close" THEN "return" ELSE pending
               /\ UNCHANGED <<event_callbacks, cause, dispatched, invocations>>
         [] OTHER ->
               /\ Except(outcome)
               /\ UNCHANGED <<event_callbacks, sync_failures, pause, pending,
                              dispatched, invocations>>
    /\ session_open' = TRUE
    /\ UNCHANGED iteration
    /\ MainFrame

\* line 108: inside `await client.sync_forever(...)` one response is
\* handled, or the call ends.  An event is handed to every matching callback
\* in turn; a handler that raises ends the call with its exception.
MainSyncForever(outcome, class) ==
    /\ main_pc = "sync_forever"
    /\ outcome \in {"ok", "handler_raised"} <=> class # NoEvent
    /\ class # NoEvent => dispatched < MaxDispatched
    /\ dispatched' = IF class = NoEvent THEN dispatched ELSE dispatched + 1
    /\ CASE outcome = "ok" ->
               /\ invocations' = Matching(event_callbacks, class)
               /\ UNCHANGED <<main_pc, cause, pending>>
         [] outcome = "handler_raised" ->
               /\ invocations' = 1
               /\ Except("Exception")
               /\ UNCHANGED pending
         [] outcome = "returned" ->
               /\ main_pc' = "close"
               /\ cause' = "returned"
               /\ pending' = "loop"
               /\ UNCHANGED invocations
         [] OTHER ->
               /\ Except(outcome)
               /\ UNCHANGED <<pending, invocations>>
    /\ UNCHANGED <<iteration, session_open, event_callbacks, sync_failures, pause>>
    /\ MainFrame

\* lines 114, 118: sleep(15), then the finally clause.
MainSleep ==
    /\ main_pc = "sleep"
    /\ pause' = ReconnectPause
    /\ main_pc' = "close"
    /\ pending' = "loop"
    /\ UNCHANGED <<iteration, session_open, event_callbacks, sync_failures, cause,
                   dispatched, invocations>>
    /\ MainFrame

\* lines 119-121: `await client.close()` completes, and what the finally
\* clause held back goes on: the loop, the return, or the exception.
MainClose ==
    /\ main_pc = "close"
    /\ session_open' = FALSE
    /\ main_pc' = CASE pending = "loop" -> "while"
                    [] pending = "return" -> "returned"
                    [] OTHER -> "raised"
    /\ UNCHANGED <<iteration, event_callbacks, sync_failures, pause, cause, pending,
                   dispatched, invocations>>
    /\ MainFrame

\* line 58: the next run of the body.
MainLoop ==
    /\ main_pc = "while"
    /\ iteration < MaxIterations
    /\ iteration' = iteration + 1
    /\ main_pc' = "login"
    /\ sync_failures' = 0
    /\ pause' = 0
    /\ cause' = "none"
    /\ UNCHANGED <<session_open, event_callbacks, pending, dispatched, invocations>>
    /\ MainFrame

\* The process is interrupted (__init__.py, run(): KeyboardInterrupt comes
\* out of run_until_complete).  Raised while main() executes (in_frame: in a
\* sleep(), or in code between two awaits), it passes the except clauses
\* and the finally clause runs; raised while main() is suspended at an
\* await, it stops the event loop and main() is never resumed.
MainInterrupt(in_frame) ==
    /\ main_pc \in {"login", "initial_sync", "sync_forever", "sleep"}
    /\ main_pc = "sleep" => in_frame
    /\ (main_pc = "login" /\ user_token) => in_frame
    /\ IF in_frame
       THEN /\ main_pc' = "close"
            /\ pending' = "raise"
       ELSE /\ main_pc' = "abandoned"
            /\ UNCHANGED pending
    /\ cause' = "KeyboardInterrupt"
    /\ UNCHANGED <<iteration, session_open, event_callbacks, sync_failures, pause,
                   dispatched, invocations>>
    /\ MainFrame

LoginOutcomes ==
    {"ok", "LoginError", "LocalProtocolError", "ClientConnectionError", "Exception"}
SyncOutcomes == {"ok", "SyncError", "ClientConnectionError", "Exception"}
SyncForeverOutcomes ==
    {"ok", "handler_raised", "returned", "ClientConnectionError", "Exception"}

NextMain ==
    \/ \E outcome \in LoginOutcomes : MainLogin(outcome)
    \/ \E outcome \in SyncOutcomes, class \in EventClasses \cup {NoEvent} :
          MainInitialSync(outcome, class)
    \/ \E outcome \in SyncForeverOutcomes, class \in EventClasses \cup {NoEvent} :
          MainSyncForever(outcome, class)
    \/ MainSleep
    \/ MainClose
    \/ MainLoop
    \/ \E in_frame \in BOOLEAN : MainInterrupt(in_frame)

SpecMain == InitMain /\ [][NextMain]_vars

\* ================================================================== claims
Finished(t) == tasks[t].pc \in {"done", "raised"}

\* The domain of an identifier @localpart:domain is what follows its first
\* colon (spec, section 3, FederatedUserId).
FirstColon(user_id) ==
    CHOOSE i \in 1..Len(user_id) :
        user_id[i] = ":" /\ \A j \in 1..(i - 1) : user_id[j] # ":"

TrueDomain(user_id) == SubSeq(user_id, FirstColon(user_id) + 1, Len(user_id))

\* C1: for a new join of a user with domain d, handled without a failed read,
\* a failed capability check or a failed write, the demotion is applied if and
\* only if d is absent from the allowlist and dry-run mode is off.
C1_AllowlistCorrectness ==
    \A t \in TaskIds :
        (/\ tasks[t].kind = "membership"
         /\ tasks[t].result \in {"allowed", "dry_run", "sent", "send_failed"})
        => (tasks[t].result \in {"sent", "send_failed"}
            <=> (TrueDomain(tasks[t].state_key) \notin allowed_servers /\ ~dry_run))

\* C2: a second replay of the correct reaction on a confirmation message,
\* after a first replay has removed the user's override, raises no error.
C2_ReplayDoesNotRaise ==
    \A t1, t2 \in TaskIds :
        (/\ t1 # t2
         /\ tasks[t1].kind = "unknown" /\ tasks[t1].result = "restored"
         /\ tasks[t2].kind = "unknown"
         /\ tasks[t2].reacted_to_id = tasks[t1].reacted_to_id)
        => tasks[t2].pc # "raised"

\* C3: the resolver's successful write leaves no entry for the target user in
\* the user-override map, whatever the demotion that preceded it wrote.
C3_RoundTrip ==
    [][\A t \in TaskIds :
          (/\ tasks[t].kind = "unknown"
           /\ tasks[t].pc = "put_state"
           /\ tasks'[t].result = "restored")
          => tasks[t].state_key \notin DOMAIN power'.users]_vars

\* C3 witness: u was demoted and told its token by one handler, the reaction
\* on that message was resolved by the next, and u holds no override.
C3_Witness ==
    \E t1, t2 \in TaskIds :
        /\ t1 < t2
        /\ tasks[t1].kind = "membership" /\ tasks[t1].result = "sent"
        /\ tasks[t2].kind = "unknown" /\ tasks[t2].result = "restored"
        /\ tasks[t2].state_key = tasks[t1].state_key
        /\ tasks[t2].reacted_to_id = Len(timeline)
        /\ timeline[Len(timeline)].state_key = tasks[t1].state_key
        /\ tasks[t1].state_key \notin DOMAIN power.users

C4_ResolutionErasesDemotion ==
    \E t1, t2 \in TaskIds :
        /\ tasks[t1].kind = "unknown" /\ tasks[t1].result = "restored"
        /\ tasks[t2].kind = "membership" /\ tasks[t2].result = "sent"
        /\ tasks[t1].state_key # tasks[t2].state_key
        /\ \E j \in 1..Len(timeline) : timeline[j].state_key = tasks[t2].state_key
        /\ tasks[t2].state_key \notin DOMAIN power.users

\* C5: one invitation makes at most 3 join calls (attempt counts from 0), it
\* ends at the first successful join, it gives up only after the third failed
\* call, a handler that has ended makes no further call, and the room is
\* joined only by a successful call.
C5_InviteRetryBound ==
    /\ [](\A t \in TaskIds :
            tasks[t].kind = "invite" =>
                /\ tasks[t].attempt \in 0..2
                /\ tasks[t].result = "gave_up" => tasks[t].attempt = 2
                /\ (\A t2 \in TaskIds : tasks[t2].result # "joined") => ~joined)
    /\ [][\A t \in TaskIds :
            tasks[t].kind = "invite" =>
                /\ Finished(t) => tasks'[t] = tasks[t]
                /\ joined' /\ ~joined /\ tasks'[t] # tasks[t]
                       => tasks'[t].result = "joined"]_vars

\* C5 witness: an invitation whose three join calls failed; the room is not
\* joined.
C5_Witness ==
    \E t \in TaskIds :
        /\ tasks[t].kind = "invite"
        /\ tasks[t].result = "gave_up"
        /\ tasks[t].attempt = 2
        /\ ~joined

Last(seq) == seq[Len(seq)]

\* C6: the demote handler's successful write holds users[u] = -1 and
\* events[m.reaction] = -1; its successful send appends exactly one message,
\* annotated join_confirm for u and naming the token of u, and the handler
\* posts nothing after it; a reaction is taken as correct exactly when its key
\* is the token its target names.
C6_DemotionWritesAndConfirms ==
    /\ [][/\ \A t \in TaskIds :
               tasks[t].kind = "membership" =>
                   /\ (tasks[t].pc = "put_state" /\ tasks'[t].pc = "send")
                          => /\ tasks[t].state_key \in DOMAIN power'.users
                             /\ power'.users[tasks[t].state_key] = -1
                             /\ "m.reaction" \in DOMAIN power'.events
                             /\ power'.events["m.reaction"] = -1
                   /\ (tasks[t].pc = "send" /\ tasks'[t].result = "sent")
                          => /\ SubSeq(timeline', 1, Len(timeline)) = timeline
                             /\ Last(timeline').type = "join_confirm"
                             /\ Last(timeline').state_key = tasks[t].state_key
                             /\ Last(timeline').token = hash_user_id(tasks[t].state_key)
                   /\ Finished(t) => tasks'[t] = tasks[t]
          /\ Len(timeline') = Len(timeline) + Cardinality(
                 {t \in TaskIds : tasks[t].pc = "send" /\ tasks'[t].result = "sent"})]_vars
    /\ [](\A t \in TaskIds :
            (tasks[t].kind = "unknown" /\ tasks[t].pc \in {"get_state", "put_state"})
                => /\ tasks[t].reacted_to_id \in 1..Len(timeline)
                   /\ tasks[t].state_key = timeline[tasks[t].reacted_to_id].state_key
                   /\ (tasks[t].pc = "get_state"
                          => tasks[t].key = timeline[tasks[t].reacted_to_id].token))

\* C6 witness: u joined, the write and the send succeeded, the room holds the
\* two overrides and the message for u.
C6_Witness ==
    \E t \in TaskIds :
        /\ tasks[t].kind = "membership"
        /\ tasks[t].result = "sent"
        /\ Len(timeline) = 1
        /\ timeline[1] = ConfirmMessage(tasks[t].state_key)
        /\ DictGet(power.users, tasks[t].state_key, 0) = -1
        /\ DictGet(power.events, "m.reaction", 0) = -1

\* C7: when the bot's level in the power levels just read is below the level
\* required for m.room.power_levels, the demote handler ends there: the room's
\* power levels and messages are unchanged and the handler takes no later step.
C7_CapabilityAbort ==
    [][\A t \in TaskIds :
          tasks[t].kind = "membership" =>
              /\ (/\ tasks[t].pc = "get_state"
                  /\ tasks'[t] # tasks[t]
                  /\ tasks'[t].result # "read_failed"
                  /\ DictGet(power.users, Bot, users_default)
                         < DictGet(power.events, "m.room.power_levels", state_default))
                 => /\ tasks'[t].pc = "done"
                    /\ tasks'[t].result = "incapable"
                    /\ power' = power
                    /\ timeline' = timeline
              /\ tasks[t].result = "incapable" => tasks'[t] = tasks[t]]_vars

\* C7 witness: a demote handler ended on the capability check; the joining
\* user holds no override and no message names it.
C7_Witness ==
    \E t \in TaskIds :
        /\ tasks[t].kind = "membership"
        /\ tasks[t].result = "incapable"
        /\ tasks[t].state_key \notin DOMAIN power.users
        /\ timeline = <<>>

\* C8: a new join whose identifier does not parse goes down the demotion path
\* (when dry-run is off): the handler never ends with the user neither
\* allowlisted nor put through the demotion.
C8_MalformedFailsClosed ==
    \A t \in TaskIds :
        (/\ tasks[t].kind = "membership"
         /\ tasks[t].result # "ignored"
         /\ ParseRaises(tasks[t].state_key)
         /\ ~dry_run)
        => \/ tasks[t].pc \in {"get_state", "put_state", "send"}
           \/ tasks[t].result \in
                  {"read_failed", "incapable", "write_failed", "sent", "send_failed"}

\* C9: the demote handler reaches its send only from a successful write that
\* holds u's -1 override, a message is posted only by a handler at its send,
\* every other step of the handler (a failed read or write among them) leaves
\* the room's power levels and messages as they were, and a handler that has
\* ended takes no further step (no retry).
C9_ConfirmOnlyAfterWrite ==
    [][\A t \in TaskIds :
          tasks[t].kind = "membership" =>
              /\ (tasks'[t].pc = "send" /\ tasks[t].pc # "send")
                     => /\ tasks[t].pc = "put_state"
                        /\ tasks[t].state_key \in DOMAIN power'.users
                        /\ power'.users[tasks[t].state_key] = -1
              /\ (tasks'[t] # tasks[t] /\ timeline' # timeline) => tasks[t].pc = "send"
              /\ (tasks'[t] # tasks[t] /\ power' # power)
                     => tasks[t].pc = "put_state" /\ tasks'[t].pc = "send"
              /\ (tasks'[t] # tasks[t]
                  /\ tasks'[t].result \in {"read_failed", "write_failed"})
                     => power' = power /\ timeline' = timeline /\ tasks'[t].pc = "done"
              /\ Finished(t) => tasks'[t] = tasks[t]]_vars

\* C9 witness: the write of a demote handler failed; the user holds no
\* override and no message names it.
C9_Witness ==
    \E t \in TaskIds :
        /\ tasks[t].kind = "membership"
        /\ tasks[t].result = "write_failed"
        /\ tasks[t].state_key \notin DOMAIN power.users
        /\ \A i \in 1..Len(timeline) : timeline[i].state_key # tasks[t].state_key

\* C10 as stated: in the power levels a demote handler has written, the
\* demoted user's level is strictly below the level required for m.reaction.
C10_DemotedCannotReact ==
    \A t \in TaskIds :
        (tasks[t].kind = "membership" /\ tasks[t].pc = "send")
        => tasks[t].users[tasks[t].state_key] < tasks[t].events["m.reaction"]

\* C10 amended: in the power levels a demote handler has written, the demoted
\* user's level and the level required for m.reaction are both -1: the demoted
\* user's level meets the requirement.
C10_DemotedCanReact ==
    \A t \in TaskIds :
        (tasks[t].kind = "membership" /\ tasks[t].pc = "send")
        => /\ tasks[t].users[tasks[t].state_key] = -1
           /\ tasks[t].events["m.reaction"] = -1
           /\ tasks[t].users[tasks[t].state_key] >= tasks[t].events["m.reaction"]

\* C10 witness: the room holds the power levels a demote handler has just
\* written.
C10_Witness ==
    \E t \in TaskIds :
        /\ tasks[t].kind = "membership"
        /\ tasks[t].pc = "send"
        /\ power = [events |-> tasks[t].events, users |-> tasks[t].users]
        /\ power.users[tasks[t].state_key] = -1

\* C11: the resolver goes on to read the power levels exactly when the fetch
\* of the target succeeded, the target is a join_confirm message and the
\* reaction's key is the token of the user that message names, whoever sent
\* the reaction; otherwise it ends there with the room untouched.  It reads
\* only after that test, writes only after the read, and a resolver that has
\* ended takes no further step.
C11_ResolverGate ==
    [][\A t \in TaskIds :
          tasks[t].kind = "unknown" =>
              /\ (tasks[t].pc = "get_event" /\ tasks'[t] # tasks[t])
                     => LET id == tasks[t].reacted_to_id
                            matches ==
                                /\ id \in 1..Len(timeline)
                                /\ timeline[id].type = "join_confirm"
                                /\ tasks[t].key = hash_user_id(timeline[id].state_key)
                        IN  /\ tasks'[t].pc = "get_state" => matches
                            /\ (tasks'[t].result # "fetch_failed" /\ matches)
                                   => tasks'[t].pc = "get_state"
                            /\ tasks'[t].pc # "get_state"
                                   => /\ tasks'[t].pc = "done"
                                      /\ tasks'[t].result \in
                                             {"fetch_failed", "not_confirm", "mismatch"}
                            /\ power' = power
                            /\ timeline' = timeline
              /\ (tasks'[t].pc = "get_state" /\ tasks[t].pc # "get_state")
                     => tasks[t].pc = "get_event"
              /\ (tasks'[t].pc = "put_state" /\ tasks[t].pc # "put_state")
                     => tasks[t].pc = "get_state"
              /\ (tasks'[t] # tasks[t] /\ power' # power) => tasks[t].pc = "put_state"
              /\ Finished(t) => tasks'[t] = tasks[t]]_vars

\* C11 witness: a reaction that somebody else sent with the token of the
\* demoted user passed the test; the resolver has read the power levels and
\* is about to write them without the user's override.
C11_Witness ==
    \E t \in TaskIds :
        /\ tasks[t].kind = "unknown"
        /\ tasks[t].pc = "put_state"
        /\ tasks[t].sender # tasks[t].state_key
        /\ tasks[t].key = hash_user_id(tasks[t].state_key)
        /\ timeline[tasks[t].reacted_to_id].state_key = tasks[t].state_key
        /\ tasks[t].state_key \notin DOMAIN tasks[t].users

\* C14: a membership handler that does anything but end at once (a read or a
\* write of the power levels, a message, or any result other than "ignored")
\* was started by an event whose membership is join and whose membership
\* before it was none, invite or leave; the start of a handler changes
\* neither the power levels nor the messages, and a handler that ended on
\* the filter takes no later step.
C14_OnlyNewJoins ==
    [][/\ (/\ delivered' = delivered + 1
           /\ tasks'[NextTask].kind = "membership"
           /\ tasks'[NextTask].result # "ignored")
          => \A m \in Memberships, p \in PrevMemberships :
                MembershipStart(tasks'[NextTask].state_key, m, p)
                => m = "join" /\ p \in {"None", "invite", "leave"}
       /\ delivered' = delivered + 1 => power' = power /\ timeline' = timeline
       /\ \A t \in TaskIds :
             (tasks[t].kind = "membership" /\ tasks[t].result = "ignored")
             => /\ tasks[t].pc = "done"
                /\ tasks'[t] = tasks[t]]_vars

\* C14 witness: in a joined room with dry-run off, the only event so far was
\* a membership event that the filter dropped; there is no message and no
\* override of -1.
C14_Witness ==
    /\ joined
    /\ ~dry_run
    /\ delivered = 1
    /\ tasks[1].kind = "membership"
    /\ tasks[1].result = "ignored"
    /\ timeline = <<>>
    /\ \A u \in DOMAIN power.users : power.users[u] # -1

\* C15: a confirmation message is never removed, a reaction that fails (wrong
\* token, failed fetch, failed read) changes neither the power levels nor the
\* messages, and whatever attempts came before, a reaction with the token
\* its target names whose fetch succeeds goes on to the read, its read of
\* power levels that hold the user's override goes on to the write, and its
\* successful write leaves the user without an override.
C15_ChallengeStaysPending ==
    [][/\ SubSeq(timeline', 1, Len(timeline)) = timeline
       /\ \A t \in TaskIds :
             tasks[t].kind = "unknown" =>
                 /\ (/\ tasks'[t] # tasks[t]
                     /\ tasks'[t].result \in
                            {"mismatch", "fetch_failed", "not_confirm", "read_failed"})
                        => power' = power /\ timeline' = timeline
                 /\ (/\ tasks[t].pc = "get_event"
                     /\ tasks'[t] # tasks[t]
                     /\ tasks'[t].result # "fetch_failed"
                     /\ tasks[t].reacted_to_id \in 1..Len(timeline)
                     /\ timeline[tasks[t].reacted_to_id].type = "join_confirm"
                     /\ tasks[t].key =
                            hash_user_id(timeline[tasks[t].reacted_to_id].state_key))
                        => /\ tasks'[t].pc = "get_state"
                           /\ tasks'[t].state_key =
                                  timeline[tasks[t].reacted_to_id].state_key
                 /\ (/\ tasks[t].pc = "get_state"
                     /\ tasks'[t] # tasks[t]
                     /\ tasks'[t].result # "read_failed"
                     /\ DictGet(power.users, tasks[t].state_key, 0) = -1)
                        => tasks'[t].pc = "put_state"
                 /\ (tasks[t].pc = "put_state" /\ tasks'[t].result = "restored")
                        => tasks[t].state_key \notin DOMAIN power'.users]_vars

\* C15 witness: a first reaction failed (wrong token, failed fetch or failed
\* read); the next one, on the message of a demoted user, removed the
\* user's override.
C15_Witness ==
    /\ tasks[1].kind = "unknown"
    /\ tasks[1].result \in {"mismatch", "fetch_failed", "read_failed"}
    /\ tasks[2].kind = "unknown"
    /\ tasks[2].result = "restored"
    /\ timeline[tasks[2].reacted_to_id].state_key = tasks[2].state_key
    /\ tasks[2].state_key \notin DOMAIN power.users

\* C18: the room's power levels never hold an override of -1 for the bot's
\* own identifier, and a demote handler for the bot's own join never leaves
\* the bot below the level required for m.room.power_levels.
C18_BotNeverDemotesItself ==
    /\ DictGet(power.users, Bot, users_default) # -1
    /\ \A t \in TaskIds :
          (/\ tasks[t].kind = "membership"
           /\ tasks[t].state_key = Bot
           /\ tasks[t].result \in {"sent", "send_failed"})
          => can_user_send_state(power.events, power.users, Bot, "m.room.power_levels")

\* C19: when the handlers run one at a time, every user that a posted
\* join_confirm message names, and for whom no reaction with the user's token
\* has been taken up by a resolver, holds the override -1.
C19_PendingStaysDemoted ==
    \A i \in 1..Len(timeline) :
        (\A t \in TaskIds :
            ~(tasks[t].kind = "unknown" /\ tasks[t].state_key = timeline[i].state_key))
        => DictGet(power.users, timeline[i].state_key, users_default) = -1

\* C19 witness: two users were demoted one after the other, no reaction was
\* sent, and both hold the override.
C19_Witness ==
    \E t1, t2 \in TaskIds :
        /\ t1 < t2
        /\ tasks[t1].kind = "membership" /\ tasks[t1].result = "sent"
        /\ tasks[t2].kind = "membership" /\ tasks[t2].result = "sent"
        /\ tasks[t1].state_key # tasks[t2].state_key
        /\ \E i, j \in 1..Len(timeline) :
              /\ i < j
              /\ timeline[i].state_key = tasks[t1].state_key
              /\ timeline[j].state_key = tasks[t2].state_key
        /\ DictGet(power.users, tasks[t1].state_key, users_default) = -1
        /\ DictGet(power.users, tasks[t2].state_key, users_default) = -1

\* C20: the content a resolver writes is the content it read with the
\* target's entry removed from the users map: the events map and every other
\* user's entry are as read, and the successful write installs just that;
\* once a confirmation message is posted, the requirement for m.reaction is
\* -1 and stays -1 through every resolution.
C20_ResolutionFrame ==
    /\ [][\A t \in TaskIds :
             tasks[t].kind = "unknown" =>
                 /\ (tasks[t].pc = "get_state" /\ tasks'[t].pc = "put_state")
                        => /\ tasks'[t].events = power.events
                           /\ DOMAIN tasks'[t].users
                                  = DOMAIN power.users \ {tasks[t].state_key}
                           /\ \A u \in DOMAIN tasks'[t].users :
                                  tasks'[t].users[u] = power.users[u]
                 /\ (tasks[t].pc = "put_state" /\ tasks'[t].result = "restored")
                        => /\ power'.events = tasks[t].events
                           /\ power'.users = tasks[t].users]_vars
    /\ [](timeline # <<>> => DictGet(power.events, "m.reaction", state_default) = -1)

\* C20 witness: Spam's challenge was resolved while Eve was demoted; Spam has
\* no override, Eve and the bot hold theirs and m.reaction still requires -1.
C20_Witness ==
    \E t1, t2 \in TaskIds :
        /\ tasks[t1].kind = "membership" /\ tasks[t1].result = "sent"
        /\ tasks[t2].kind = "unknown" /\ tasks[t2].result = "restored"
        /\ tasks[t1].state_key # tasks[t2].state_key
        /\ tasks[t2].state_key \notin DOMAIN power.users
        /\ DictGet(power.users, tasks[t1].state_key, users_default) = -1
        /\ DictGet(power.users, Bot, users_default) = 100
        /\ DictGet(power.events, "m.reaction", state_default) = -1
        /\ DictGet(power.events, "m.room.power_levels", state_default) = 100

\* C12: whenever main() has left a run of the loop body (it is about to loop,
\* it has returned, or the interruption of the process has ended it), and
\* whenever a later run of the body starts, the transport session is closed.
C12_SessionClosedOnExit ==
    /\ main_pc \in {"while", "returned", "raised", "abandoned"} => ~session_open
    /\ (main_pc = "login" /\ iteration > 1) => ~session_open

\* C13 as stated: main() returns only after an authentication failure
\* (a LoginError response) at login.
C13_OnlyAuthFailureEnds == main_pc = "returned" => cause = "LoginError"

\* C13 amended: main() returns only after a failed login call, which is a
\* LoginError response or a LocalProtocolError raised by the call, and then
\* it goes through the finally clause to its return and takes no further
\* step; a transport fault or any other Exception in the loop body (one
\* raised in a handler among them) leads to the sleep of 15, the close of the
\* session and the next run of the body.
C13_OnlyLoginFailureEnds ==
    /\ [](/\ main_pc = "returned" => cause \in {"LoginError", "LocalProtocolError"}
          /\ cause \in {"LoginError", "LocalProtocolError"}
                 => main_pc \in {"close", "returned"} /\ pending = "return"
          /\ cause \in {"ClientConnectionError", "Exception"}
                 => /\ main_pc \in {"sleep", "close", "while"}
                    /\ main_pc \in {"close", "while"}
                           => pause = ReconnectPause /\ pending = "loop"
                    /\ main_pc = "while" => ~session_open)
    /\ [][/\ main_pc = "returned" => UNCHANGED mvars
          /\ (main_pc = "while" /\ main_pc' # "while")
                 => main_pc' = "login" /\ iteration' = iteration + 1
          /\ (/\ main_pc = "sync_forever"
              /\ dispatched' # dispatched
              /\ main_pc' # "sync_forever")
                 => main_pc' = "sleep" /\ cause' = "Exception"]_vars

\* C13 witness: a handler raised during sync_forever; main() has slept 15,
\* closed the session and stands at the head of the loop.
C13_Witness ==
    /\ main_pc = "while"
    /\ cause = "Exception"
    /\ dispatched = 1
    /\ invocations = 1
    /\ pause = ReconnectPause
    /\ ~session_open
    /\ iteration < MaxIterations

\* C16: a failed initial sync is followed by a sleep of 30 and the next
\* attempt, whatever the number of failures so far, with no event handed to
\* a handler and no registration; callbacks are registered, and sync_forever
\* is entered, only by the step in which an initial sync succeeds.
C16_InitialSyncRetries ==
    [][/\ sync_failures' = sync_failures + 1
             => /\ main_pc = "initial_sync"
                /\ main_pc' = "initial_sync"
                /\ pause' = InitialSyncPause
                /\ dispatched' = dispatched
                /\ event_callbacks' = event_callbacks
       /\ (main_pc = "initial_sync" /\ main_pc' \notin {"initial_sync", "sync_forever"})
             => /\ cause' \in {"ClientConnectionError", "Exception", "KeyboardInterrupt"}
                /\ dispatched' = dispatched
       /\ event_callbacks' # event_callbacks
             => /\ main_pc = "initial_sync"
                /\ main_pc' = "sync_forever"
                /\ sync_failures' = sync_failures
                /\ event_callbacks' = event_callbacks \o Registrations(iteration)
       /\ (main_pc' = "sync_forever" /\ main_pc # "sync_forever")
             => /\ main_pc = "initial_sync"
                /\ event_callbacks' # event_callbacks
       /\ dispatched' # dispatched
             => main_pc' = "sync_forever" \/ main_pc = "sync_forever"]_vars

\* C16 witness: in the first run of the body the initial sync failed at least
\* twice, then succeeded; the callbacks are registered and main() is in
\* sync_forever, no event having been handed to a handler before.
C16_Witness ==
    /\ iteration = 1
    /\ main_pc = "sync_forever"
    /\ sync_failures >= 2
    /\ pause = InitialSyncPause
    /\ event_callbacks = Registrations(1)
    /\ dispatched = 0

\* C17: an event that sync_forever hands to the callbacks causes exactly one
\* handler call, and the client never holds two registrations for one class
\* of event.
C17_OneCallPerEvent ==
    /\ [][(main_pc = "sync_forever" /\ dispatched' = dispatched + 1)
             => invocations' = 1]_vars
    /\ [](\A class \in EventClasses : Matching(event_callbacks, class) <= 1)

====
